---- MODULE Spec2Model ----
(***************************************************************************)
(* A model of src/noaa.py (class NOAA): the download folder, the two       *)
(* SQLite tables `data` and `info`, and the operations fetch_raw_data,     *)
(* insert_raw_data, _insert_single_csv, insert_station_info and            *)
(* _insert_single_station.                                                 *)
(*                                                                         *)
(* Station ids and dates stand for the stored TEXT values by their rank    *)
(* in SQLite's BINARY collation (1 < 2 < ...).  Column values that are     *)
(* pasted into SQL text are tuples of characters, so that an embedded      *)
(* double quote can break the statement as it does in the program.         *)
(***************************************************************************)
EXTENDS Naturals, Integers, Sequences, FiniteSets, TLC

\* ------------------------------------------------------------- bounds
NumStations == 2
MaxBatch == 2
MaxRuns == 2

Stations == 1..NumStations
Dates == {1, 2}
DQ == "\""
Temps == {<<"5">>, <<"9">>}

\* A row of table data; temp stands for the thirteen value columns.
Rows == [station : Stations, date : Dates, temp : Temps]

RECURSIVE SeqsUpTo(_, _)
SeqsUpTo(S, n) ==
  IF n = 0 THEN {<<>>}
  ELSE LET shorter == SeqsUpTo(S, n - 1)
       IN  shorter \cup {Append(q, x) : q \in {p \in shorter : Len(p) = n - 1}, x \in S}

\* The data frames read_csv can hand to the insert statement.
Batches == SeqsUpTo(Rows, MaxBatch)

Range(q) == {q[i] : i \in DOMAIN q}

\* ------------------------------------------------------------- the store
NULL == 0

\* PRIMARY KEY (station, date) of table data.
SameKey_NoKey(r, s) == FALSE
SameKey(r, s) == r.station = s.station /\ r.date = s.date

KeyOf(r) == <<r.station, r.date>>
Keys(table) == {KeyOf(r) : r \in table}

\* One VALUES row under INSERT OR IGNORE: a row whose key is stored is skipped.
InsertRow_Replace(table, r) == {s \in table : ~SameKey(s, r)} \cup {r}
InsertRow(table, r) ==
  IF \E s \in table : SameKey(s, r) THEN table ELSE table \cup {r}

\* The rows up to the first conflict only: the statement stops at a stored key.
RECURSIVE InsertRows_Stop(_, _)
InsertRows_Stop(table, df) ==
  IF df = <<>> \/ (\E s \in table : SameKey(s, Head(df))) THEN table
  ELSE InsertRows_Stop(table \cup {Head(df)}, Tail(df))

\* The VALUES rows are applied in the order of the data frame.
RECURSIVE InsertRows(_, _)
InsertRows(table, df) ==
  IF df = <<>> THEN table ELSE InsertRows(InsertRow(table, Head(df)), Tail(df))

\* f'"{v}"': the value between two double quotes.
Quoted(v) == <<DQ>> \o v \o <<DQ>>

\* A double-quoted token is one string literal iff no quote is left unpaired
\* inside it ("" is SQLite's escape for one quote).
RECURSIVE QuotesPaired(_)
QuotesPaired(v) ==
  IF v = <<>> THEN TRUE
  ELSE IF Head(v) # DQ THEN QuotesPaired(Tail(v))
  ELSE Len(v) >= 2 /\ v[2] = DQ /\ QuotesPaired(Tail(Tail(v)))

IsLiteral(tok) ==
  /\ Len(tok) >= 2
  /\ Head(tok) = DQ
  /\ tok[Len(tok)] = DQ
  /\ QuotesPaired(SubSeq(tok, 2, Len(tok) - 1))

\* The statement text built from the data frame: "... VALUES" + value[:-1] + ";"
\* parses iff there is at least one row and every pasted value is a literal.
StatementParses(df) ==
  /\ df # <<>>
  /\ \A i \in DOMAIN df : IsLiteral(Quoted(df[i].temp))

\* cursor.execute(sql_statement), line 169: one statement for the whole
\* frame; a statement that does not parse is not run at all.
RECURSIVE ExecuteStatement_RowByRow(_, _)
ExecuteStatement_RowByRow(table, df) ==
  IF df = <<>> \/ ~IsLiteral(Quoted(Head(df).temp)) THEN table
  ELSE ExecuteStatement_RowByRow(InsertRow(table, Head(df)), Tail(df))
ExecuteStatement(table, df) ==
  IF StatementParses(df) THEN InsertRows(table, df) ELSE table

\* ORDER BY ... ASC instead.
RECURSIVE SortDesc_Asc(_)
SortDesc_Asc(S) ==
  IF S = {} THEN <<>>
  ELSE LET m == CHOOSE x \in S : \A y \in S : x <= y
       IN  <<m>> \o SortDesc_Asc(S \ {m})

RECURSIVE SortDesc(_)
SortDesc(S) ==
  IF S = {} THEN <<>>
  ELSE LET m == CHOOSE x \in S : \A y \in S : y <= x
       IN  <<m>> \o SortDesc(S \ {m})

\* SELECT DISTINCT data.station FROM data LEFT OUTER JOIN info
\*   ON data.station = info.station_id
\*   WHERE info.station_id IS NULL ORDER BY data.station DESC
MissingStationIds_All(d, i) == SortDesc({r.station : r \in d})
\* The ids of a station list, not of table data.
MissingStationIds_Any(d, i) == SortDesc(Stations \ {x.station_id : x \in i})
MissingStationIds(d, i) ==
  LET matched == {[station |-> r.station, station_id |-> x.station_id] :
                    <<r, x>> \in {p \in d \X i : p[1].station = p[2].station_id}}
      unmatched == {[station |-> r.station, station_id |-> NULL] :
                    r \in {s \in d : \A x \in i : x.station_id # s.station}}
      joined == matched \cup unmatched
      kept == {j \in joined : j.station_id = NULL}
  IN  SortDesc({j.station : j \in kept})

\* ------------------------------------------------------------- state
VARIABLES
  data,       \* table data: a set of rows
  info,       \* table info: a set of rows
  op,         \* the public method that is running, "none" between calls
  pc,         \* the position inside it
  df,         \* _insert_single_csv: the data frame read from the file
  cursor,     \* insert_station_info: the last station the ids cursor returned
  passIds,    \* what the ids query held when the pass began
  attempts,   \* the stations handed to _insert_single_station in this pass
  reported,   \* failures printed by the running (or last) call
  lookup,     \* the remote answer for each station asked so far
  disk,       \* the files under self.folder: path -> content
  listOrder,  \* the order os.listdir gives the names it has listed
  walkOrder,  \* the order os.walk gives the csv files it has listed
  run,        \* the pipeline runs started
  data1,      \* table data when the previous run ended
  info1,      \* table info when the previous run ended
  links,      \* fetch_raw_data: the hrefs still to visit
  requests,   \* fetch_raw_data: the download urls requested by this call
  startDisk,  \* the folder when fetch_raw_data was called
  listing,    \* insert_raw_data: what os.listdir returned
  todo,       \* insert_raw_data: the names of the running loop not yet visited
  extracted,  \* insert_raw_data: archives extract_tar unpacked in this call
  failed,     \* insert_raw_data: archives extract_tar reported as failing
  walked,     \* insert_raw_data: what os.walk found
  processed,  \* insert_raw_data: csv files handed to _insert_single_csv
  fetched     \* fetch_station_data: the arguments and the rows of the last call

tableVars == <<data, info>>
passVars == <<cursor, passIds, attempts>>
rawVars == <<listing, todo, extracted, failed, walked, processed>>
fetchVars == <<links, requests, startDisk>>
runVars == <<run, data1, info1>>
dirVars == <<disk, listOrder, walkOrder>>
readVars == <<fetched>>
pipeVars == <<dirVars, runVars, fetchVars, rawVars, readVars>>
vars == <<tableVars, op, pc, df, passVars, reported, lookup, pipeVars>>

\* ------------------------------------------------------------- _insert_single_csv

\* Frames of a good row and then a row with a double quote in a value: the
\* statement built from such a frame does not parse.
BrokenFrames ==
  {<<r, [station |-> 1, date |-> d, temp |-> <<DQ>>]>> : r \in Rows, d \in Dates}

\* What read_csv makes of a file: a frame of rows, or an exception (the file
\* cannot be read, or lacks one of the usecols columns).
CsvContents ==
  [kind : {"frame"}, rows : Batches \cup BrokenFrames] \cup {[kind |-> "bad", rows |-> <<>>]}

\* Where _insert_single_csv returns to.
Caller == IF op = "insert_raw_data" THEN "walk" ELSE "idle"
CallerOp == IF op = "insert_raw_data" THEN op ELSE "none"

\* Lines 147-155: read the file; a failing read is printed and the call
\* returns.  `printed` is the count of failures printed before this call.
ReadCsv(content, printed) ==
  /\ IF content.kind = "bad"
     THEN /\ reported' = printed + 1
          /\ df' = <<>>
          /\ pc' = Caller
     ELSE /\ reported' = printed
          /\ df' = content.rows
          /\ pc' = "execute"
  /\ UNCHANGED <<tableVars, passVars, lookup>>

\* Lines 157-170: build the statement, execute it, commit.  A statement that
\* does not parse raises out of the call.
ExecuteInsert ==
  /\ pc = "execute"
  /\ data' = ExecuteStatement(data, df)
  /\ IF StatementParses(df)
     THEN /\ pc' = Caller
          /\ op' = CallerOp
     ELSE /\ pc' = "raised"
          /\ UNCHANGED op
  /\ df' = <<>>
  /\ UNCHANGED <<info, passVars, reported, lookup, pipeVars>>

\* No call is running: the last one returned or raised.
Idle == pc \in {"idle", "raised"}

\* A direct call of _insert_single_csv on some file.
CallInsertSingleCsv ==
  /\ Idle
  /\ \E content \in CsvContents :
       /\ ReadCsv(content, 0)
       /\ op' = IF content.kind = "bad" THEN "none" ELSE "_insert_single_csv"
  /\ UNCHANGED pipeVars

\* ------------------------------------------------------------- insert_station_info

\* What the two remote services answer for one station: the metadata request
\* fails or lacks a field, or gives a name and coordinates; get_location then
\* returns the region or raises.
Outcomes ==
  { [meta |-> "fail", name |-> <<>>, geo |-> "none"],
    [meta |-> "ok", name |-> <<"N">>, geo |-> "ok"],
    [meta |-> "ok", name |-> <<"N">>, geo |-> "raise"],
    [meta |-> "ok", name |-> <<"N", DQ>>, geo |-> "ok"] }

\* The ids cursor is read row by row while the loop body writes table info:
\* the next row is the first row of the query, over the tables as they are,
\* below the last one returned.
CursorNext ==
  LET rest == SelectSeq(MissingStationIds(data, info), LAMBDA s : s < cursor)
  IN  IF rest = <<>> THEN NULL ELSE Head(rest)

\* INSERT INTO info: a stored station_id is a conflict (PRIMARY KEY).
InfoConflict_Never(table, row) == FALSE
InfoConflict(table, row) == \E x \in table : x.station_id = row.station_id

InfoRow_Other(station, o) ==
  [station_id |-> (station % NumStations) + 1, name |-> o.name, region |-> "R"]
InfoRow(station, o) == [station_id |-> station, name |-> o.name, region |-> "R"]

\* self.baidu_api.get_location(latitude, longitude): the region fields, or
\* an exception when the lookup fails.
GetLocationRaises(o) == o.geo = "raise"

\* What _insert_single_station (lines 192-220) does with the answer o.
StationResult(station, o) ==
  IF o.meta = "fail" THEN "skipped"
  ELSE IF GetLocationRaises(o) THEN "geo_raised"
  ELSE IF ~IsLiteral(Quoted(o.name)) THEN "sql_raised"
  ELSE IF InfoConflict(info, InfoRow(station, o)) THEN "conflict_raised"
  ELSE "inserted"

Raises(result) == result \in {"geo_raised", "sql_raised", "conflict_raised"}

\* Table info after the call: lines 217-219 are reached, and write the row,
\* only when nothing before them returned or raised.
InfoAfter_Placeholder(table, station, o, result) ==
  IF result = "inserted" THEN table \cup {InfoRow(station, o)}
  ELSE IF result = "skipped" /\ ~InfoConflict(table, InfoRow(station, o))
       THEN table \cup {InfoRow(station, o)}
       ELSE table
InfoAfter(table, station, o, result) ==
  IF result = "inserted" THEN table \cup {InfoRow(station, o)} ELSE table

\* One turn of the loop of line 183 with _insert_single_station inlined.
StationStep(o) ==
  LET station == CursorNext
      result == StationResult(station, o)
  IN  /\ pc = "enrich"
      /\ station # NULL
      /\ cursor' = station
      /\ attempts' = Append(attempts, [station |-> station, result |-> result])
      /\ reported' = IF result = "skipped" THEN reported + 1 ELSE reported
      /\ info' = InfoAfter(info, station, o, result)
      /\ pc' = IF Raises(result) THEN "raised" ELSE "enrich"
      /\ UNCHANGED <<data, op, df, passIds>>

\* The cursor is exhausted: insert_station_info returns.
EndPass ==
  /\ pc = "enrich"
  /\ CursorNext = NULL
  /\ pc' = "idle"
  /\ UNCHANGED <<tableVars, op, df, passVars, reported, lookup, pipeVars>>

\* What the services can answer a caller outside the pass: the metadata
\* request fails, or both succeed; the remote state may have changed, the
\* station then has another name.
DirectOutcomes ==
  { [meta |-> "fail", name |-> <<>>, geo |-> "none"],
    [meta |-> "ok", name |-> <<"N">>, geo |-> "ok"],
    [meta |-> "ok", name |-> <<"M">>, geo |-> "ok"] }

\* A direct call of _insert_single_station (lines 186-220) for any station
\* id, after the pass of the last run has returned or raised.
CallInsertSingleStation ==
  /\ Idle
  /\ run = MaxRuns
  /\ op \in {"insert_station_info", "_insert_single_station"}
  /\ \E station \in Stations : \E o \in DirectOutcomes :
       LET result == StationResult(station, o)
       IN  /\ attempts' = <<[station |-> station, result |-> result]>>
           /\ reported' = IF result = "skipped" THEN 1 ELSE 0
           /\ info' = InfoAfter(info, station, o, result)
           /\ pc' = IF Raises(result) THEN "raised" ELSE "idle"
  /\ op' = "_insert_single_station"
  /\ cursor' = NULL
  /\ passIds' = <<>>
  /\ UNCHANGED <<data, df, lookup, pipeVars>>

\* ------------------------------------------------------------- fetch_station_data

\* Lines 239-247: the WHERE clause of each of the four statements; an omitted
\* bound is None.  Dates compare as the stored text does.
FetchStationData(d, station_id, start_date, end_date) ==
  IF start_date # NULL /\ end_date # NULL
  THEN {r \in d : r.station = station_id /\ start_date <= r.date /\ r.date <= end_date}
  ELSE IF start_date # NULL
  THEN {r \in d : r.station = station_id /\ r.date > start_date}
  ELSE IF end_date # NULL
  THEN {r \in d : r.station = station_id /\ r.date < end_date}
  ELSE {r \in d : r.station = station_id}

\* No call of fetch_station_data yet.
NoFetch == [station_id |-> NULL, start_date |-> NULL, end_date |-> NULL, rows |-> {}]

\* A call of fetch_station_data (lines 230-257); it only reads.
CallFetchStationData ==
  /\ pc = "idle"
  /\ \E station_id \in Stations : \E start_date \in Dates \cup {NULL} :
       \E end_date \in Dates \cup {NULL} :
         fetched' = [station_id |-> station_id, start_date |-> start_date,
                     end_date |-> end_date,
                     rows |-> FetchStationData(data, station_id, start_date, end_date)]
  /\ UNCHANGED <<tableVars, op, pc, df, passVars, reported, lookup, dirVars, runVars,
                 fetchVars, rawVars>>

\* ------------------------------------------------------------- the remote site and the folder

\* A file name is the tuple of its dot-separated parts, a url or href the
\* tuple of its slash-separated segments.
F2019 == <<"2019", "tar", "gz">>
F2020 == <<"2020", "tar", "gz">>
F2021 == <<"2021", "tar", "gz">>
F2022 == <<"2022", "tar", "gz">>
F2023 == <<"2023", "tar", "gz">>
CsvA == <<"a", "csv">>
CsvB == <<"b", "csv">>
CsvC == <<"c", "csv">>
CsvD == <<"d", "csv">>

\* NOAA_ARCHIVE_URL, https://host/archive/
ArchiveUrl == << <<"https:">>, <<>>, <<"host">>, <<"archive">>, <<>> >>

\* The href of every link of the archive page, in page order: two bare names,
\* a relative path, an absolute url, a bare name, and a link to another file.
PageHrefs ==
  << <<F2019>>,
     <<F2020>>,
     << <<"sub">>, F2021 >>,
     << <<"https:">>, <<>>, <<"host">>, <<"archive">>, F2022 >>,
     <<F2023>>,
     << <<"readme", "txt">> >> >>

\* //a[contains(@href, "tar.gz")]/@href
ContainsTarGz(href) ==
  \E k \in DOMAIN href : \E j \in 1..(Len(href[k]) - 1) :
    href[k][j] = "tar" /\ href[k][j + 1] = "gz"

\* urljoin(self.noaa_archive_url, url)
UrlJoin(base, href) ==
  IF href[1] = <<"https:">> THEN href
  ELSE IF href[1] = <<>> THEN SubSeq(base, 1, 3) \o Tail(href)
  ELSE SubSeq(base, 1, Len(base) - 1) \o href

\* url.split('/')[-1]
FileName(url) == url[Len(url)]

\* item.split('.')[-1]
Extension(name) == name[Len(name)]

Row(s, d, t) == [station |-> s, date |-> d, temp |-> t]

\* What read_csv makes of each csv file of the archives: a.csv has rows of
\* station 1 and repeats a key, b.csv has a key of a.csv with another value
\* and a row of every other station, c.csv has a header and no data row,
\* d.csv lacks a column.
CsvFile(name) ==
  CASE name = CsvA -> [kind |-> "frame",
                       rows |-> <<Row(1, 1, <<"5">>), Row(1, 1, <<"9">>), Row(1, 1, <<"5">>)>>]
    [] name = CsvB -> [kind |-> "frame",
                       rows |-> <<Row(1, 1, <<"9">>)>>
                                  \o [k \in 1..(NumStations - 1) |-> Row(k + 1, 1, <<"5">>)]]
    [] name = CsvC -> [kind |-> "frame", rows |-> <<>>]
    [] name = CsvD -> [kind |-> "bad", rows |-> <<>>]

\* A tar.gz file: the csv members tarfile can unpack, or a file it rejects.
Archive(members) == [kind |-> "archive", valid |-> TRUE, members |-> members]
Partial == [kind |-> "archive", valid |-> FALSE, members |-> {}]

\* What the site answers to a download request.
Served(url) ==
  CASE FileName(url) = F2019 /\ Len(url) = 5 -> [status |-> 200, body |-> Archive({CsvB})]
    [] FileName(url) = F2020 /\ Len(url) = 5 -> [status |-> 200, body |-> Archive({CsvC})]
    [] FileName(url) = F2021 /\ Len(url) = 6 -> [status |-> 200, body |-> Partial]
    [] FileName(url) = F2022 /\ Len(url) = 5 -> [status |-> 200, body |-> Archive({CsvA, CsvD})]
    [] OTHER -> [status |-> 404, body |-> Partial]

Put(f, k, v) == [x \in DOMAIN f \cup {k} |-> IF x = k THEN v ELSE f[x]]

\* self.folder holds plain files only; disk maps the name of each to its
\* content.  os.path.exists(os.path.join(self.folder, url)): the href read as
\* a path below the folder.
PathExists(href) == Len(href) = 1 /\ href[1] \in DOMAIN disk

\* os.listdir / os.walk give the names in an arbitrary order, the same one
\* each time: a name listed before keeps its place, a new name comes in any
\* place after those.
MayVisit(order, pending, x) ==
  /\ x \in pending
  /\ \A i \in DOMAIN order : order[i] \in pending =>
       /\ x \in Range(order)
       /\ \A j \in DOMAIN order : order[j] = x => j <= i

Visited(order, x) == IF x \in Range(order) THEN order ELSE Append(order, x)

\* ------------------------------------------------------------- fetch_raw_data

RECURSIVE FilterLinks(_)
FilterLinks(hrefs) ==
  IF hrefs = <<>> THEN <<>>
  ELSE (IF ContainsTarGz(Head(hrefs)) THEN <<Head(hrefs)>> ELSE <<>>)
         \o FilterLinks(Tail(hrefs))

\* A run of the pipeline begins: fetch_raw_data is called and reads the page
\* (lines 110-112).
StartRun ==
  /\ Idle
  /\ run < MaxRuns
  /\ run' = run + 1
  /\ data1' = data
  /\ info1' = info
  /\ op' = "fetch_raw_data"
  /\ pc' = "fetch"
  /\ links' = FilterLinks(PageHrefs)
  /\ requests' = <<>>
  /\ startDisk' = disk
  /\ reported' = 0
  /\ df' = <<>>
  /\ cursor' = NULL
  /\ passIds' = <<>>
  /\ attempts' = <<>>
  /\ listing' = {}
  /\ todo' = {}
  /\ extracted' = {}
  /\ failed' = {}
  /\ walked' = {}
  /\ processed' = {}
  /\ UNCHANGED <<tableVars, lookup, dirVars, readVars>>

\* _download_tar_gz, lines 94-102: the folder after the request.  The file
\* is opened only under the 200 test.
Download_Touch(d, url) ==
  IF Served(url).status = 200 THEN Put(d, FileName(url), Served(url).body)
  ELSE Put(d, FileName(url), Partial)
Download(d, url) ==
  IF Served(url).status = 200 THEN Put(d, FileName(url), Served(url).body) ELSE d

\* Lines 114-121 with _download_tar_gz (79-102) inlined: one link.
FetchStep ==
  /\ pc = "fetch"
  /\ links # <<>>
  /\ LET href == Head(links)
         url == UrlJoin(ArchiveUrl, href)
         resp == Served(url)
     IN  IF PathExists(href)
         THEN UNCHANGED <<requests, disk, reported>>
         ELSE /\ requests' = Append(requests, url)
              /\ disk' = Download(disk, url)
              /\ reported' = IF resp.status = 200 THEN reported ELSE reported + 1
  /\ links' = Tail(links)
  /\ UNCHANGED <<tableVars, op, pc, df, passVars, lookup, listOrder, walkOrder,
                 runVars, startDisk, rawVars, readVars>>

\* ------------------------------------------------------------- insert_raw_data

\* Line 131: os.path.isfile(tar_file_path) and item.split('.')[-1] == 'gz'
IsArchiveName_Tar(name) == Extension(name) = "tar"
IsArchiveName(name) == Extension(name) = "gz"

\* fetch_raw_data has returned; insert_raw_data is called and lists the folder
\* (line 129).
BeginInsertRaw ==
  /\ pc = "fetch"
  /\ links = <<>>
  /\ op' = "insert_raw_data"
  /\ pc' = "extract"
  /\ listing' = DOMAIN disk
  /\ todo' = {n \in DOMAIN disk : IsArchiveName(n)}
  /\ reported' = 0
  /\ UNCHANGED <<tableVars, df, passVars, lookup, dirVars, runVars, fetchVars,
                 extracted, failed, walked, processed, readVars>>

RECURSIVE Unpack(_, _)
Unpack(d, members) ==
  IF members = {} THEN d
  ELSE LET m == CHOOSE x \in members : TRUE
       IN  Unpack(Put(d, m, CsvFile(m)), members \ {m})

\* extract_tar(tar_file_path): the members are written into the folder; a
\* file that cannot be unpacked is reported, nothing is written, and the call
\* returns.
ExtractTar(d, item) ==
  IF d[item].valid
  THEN [ok |-> TRUE, disk |-> Unpack(d, d[item].members)]
  ELSE [ok |-> FALSE, disk |-> d]

\* Lines 129-132: one archive of the listing.
ExtractStep ==
  /\ pc = "extract"
  /\ \E item \in todo :
       /\ MayVisit(listOrder, todo, item)
       /\ listOrder' = Visited(listOrder, item)
       /\ todo' = todo \ {item}
       /\ disk' = ExtractTar(disk, item).disk
       /\ IF ExtractTar(disk, item).ok
          THEN /\ extracted' = extracted \cup {item}
               /\ UNCHANGED <<failed, reported>>
          ELSE /\ failed' = failed \cup {item}
               /\ reported' = reported + 1
               /\ UNCHANGED extracted
  /\ UNCHANGED <<tableVars, op, pc, df, passVars, lookup, walkOrder, runVars,
                 fetchVars, listing, walked, processed, readVars>>

\* The for loop of line 129 ends when os.listdir has no further name.
LoopEnds_Early(pending) == TRUE
LoopEnds(pending) == pending = {}

\* The listing is exhausted: os.walk lists the csv files (lines 135-137).
BeginWalk ==
  /\ pc = "extract"
  /\ LoopEnds(todo)
  /\ pc' = "walk"
  /\ walked' = {n \in DOMAIN disk : Extension(n) = "csv"}
  /\ todo' = {n \in DOMAIN disk : Extension(n) = "csv"}
  /\ UNCHANGED <<tableVars, op, df, passVars, reported, lookup, dirVars, runVars,
                 fetchVars, listing, extracted, failed, processed, readVars>>

\* Lines 138-139: one csv file is handed to _insert_single_csv.
WalkStep ==
  /\ pc = "walk"
  /\ \E f \in todo :
       /\ MayVisit(walkOrder, todo, f)
       /\ walkOrder' = Visited(walkOrder, f)
       /\ todo' = todo \ {f}
       /\ processed' = processed \cup {f}
       /\ ReadCsv(disk[f], reported)
  /\ UNCHANGED <<op, disk, listOrder, runVars, fetchVars, listing, extracted, failed,
                 walked, readVars>>

\* ------------------------------------------------------------- the pipeline

\* insert_raw_data has returned; insert_station_info is called and executes
\* the ids query (lines 178-182).
BeginStationInfo ==
  /\ pc = "walk"
  /\ todo = {}
  /\ op' = "insert_station_info"
  /\ pc' = "enrich"
  /\ cursor' = NumStations + 1
  /\ passIds' = MissingStationIds(data, info)
  /\ attempts' = <<>>
  /\ reported' = 0
  /\ UNCHANGED <<tableVars, df, lookup, pipeVars>>

\* The loop of the pass; the remote state is the same in every run: a station
\* asked again gets the answer it got before.
EnrichStep ==
  /\ pc = "enrich"
  /\ CursorNext # NULL
  /\ \E o \in Outcomes :
       /\ CursorNext \in DOMAIN lookup => o = lookup[CursorNext]
       /\ StationStep(o)
       /\ lookup' = Put(lookup, CursorNext, o)
  /\ UNCHANGED pipeVars

\* The folder before the first run: any of these archives may lie there
\* already, as a partial file of an interrupted download.
PreNames == {F2019, F2020, F2021, F2022}

InitPipe ==
  /\ listOrder = <<>>
  /\ walkOrder = <<>>
  /\ run = 0
  /\ data1 = {}
  /\ info1 = {}
  /\ links = <<>>
  /\ requests = <<>>
  /\ startDisk = <<>>
  /\ listing = {}
  /\ todo = {}
  /\ extracted = {}
  /\ failed = {}
  /\ walked = {}
  /\ processed = {}
  /\ fetched = NoFetch

InitStore ==
  /\ data = {}
  /\ info = {}
  /\ op = "none"
  /\ pc = "idle"
  /\ df = <<>>
  /\ cursor = NULL
  /\ passIds = <<>>
  /\ attempts = <<>>
  /\ reported = 0
  /\ lookup = <<>>

Init ==
  /\ InitStore
  /\ InitPipe
  /\ \E S \in SUBSET PreNames : disk = [n \in S |-> Partial]

Next ==
  \/ StartRun
  \/ FetchStep
  \/ BeginInsertRaw
  \/ ExtractStep
  \/ BeginWalk
  \/ WalkStep
  \/ ExecuteInsert
  \/ BeginStationInfo
  \/ EnrichStep
  \/ EndPass

\* The pipeline, run after run: fetch_raw_data, insert_raw_data,
\* insert_station_info; a call that raises ends the run.
Spec == Init /\ [][Next]_vars

\* ------------------------------------------------------------- the store alone
InitInsert == InitStore /\ InitPipe /\ disk = <<>>

NextInsert ==
  \/ CallInsertSingleCsv
  \/ ExecuteInsert

\* _insert_single_csv called again and again, on any file.
SpecInsert == InitInsert /\ [][NextInsert]_vars

\* ------------------------------------------------------------- the reads
\* The store after one call of _insert_single_csv on any frame.
InitRead ==
  /\ data \in {InsertRows({}, b) : b \in Batches}
  /\ info = {}
  /\ op = "none"
  /\ pc = "idle"
  /\ df = <<>>
  /\ cursor = NULL
  /\ passIds = <<>>
  /\ attempts = <<>>
  /\ reported = 0
  /\ lookup = <<>>
  /\ InitPipe
  /\ disk = <<>>

NextRead == CallFetchStationData

\* fetch_station_data called again and again, with any arguments.
SpecRead == InitRead /\ [][NextRead]_vars

\* ------------------------------------------------------------- the pipeline and direct calls
NextStation ==
  \/ (op # "_insert_single_station" /\ Next)
  \/ CallInsertSingleStation

\* MaxRuns runs of the pipeline, and then _insert_single_station called
\* directly, again and again, for any station.
SpecStation == Init /\ [][NextStation]_vars

\* ------------------------------------------------------------- properties

InfoStations == {x.station_id : x \in info}
DataStations == {r.station : r \in data}
BatchKeys(b) == {KeyOf(b[i]) : i \in DOMAIN b}

\* C1: in every state of the store the data table holds at most one row for
\* each (station, date) pair, whatever batches _insert_single_csv was given.
C1_OneRowPerKey ==
  \A r \in data : \A t \in data : KeyOf(r) = KeyOf(t) => r = t

\* C1 witness: rows are stored and the statement about to run repeats a key
\* inside its batch and repeats a stored key with another value.
C1_Witness ==
  /\ pc = "execute"
  /\ Len(df) = 2
  /\ KeyOf(df[1]) = KeyOf(df[2])
  /\ df[1].temp # df[2].temp
  /\ \E r \in data : KeyOf(r) = KeyOf(df[1]) /\ r.temp # df[1].temp

\* C2: first write wins: a stored row, with its values, is still stored after
\* every step of the pipeline (further inserts of its key, enrichment).
C2_FirstWriteWins == [][\A r \in data : r \in data']_vars

\* C2 witness: a.csv wrote (1, 1, "5"), b.csv then offered (1, 1, "9"), the
\* enrichment pass ran, and the row still holds "5".
C2_Witness ==
  /\ op = "insert_station_info"
  /\ attempts # <<>>
  /\ {CsvA, CsvB} \subseteq processed
  /\ Row(1, 1, <<"5">>) \in data
  /\ \A r \in data : KeyOf(r) = <<1, 1>> => r.temp = <<"5">>

\* C3: a statement that parses succeeds whatever keys are stored, and leaves
\* the table as it was plus exactly one row of the batch for each key of the
\* batch that was not stored.
C3_InsertAddsAbsentKeys ==
  [][(pc = "execute" /\ StatementParses(df)) =>
       /\ pc' # "raised"
       /\ data \subseteq data'
       /\ (data' \ data) \subseteq Range(df)
       /\ Keys(data') = Keys(data) \cup BatchKeys(df)
       /\ Cardinality(data' \ data) = Cardinality(BatchKeys(df) \ Keys(data))]_vars

\* C3 witness: the batch about to be inserted has a stored key first and an
\* absent key after it.
C3_Witness ==
  /\ pc = "execute"
  /\ Len(df) = 2
  /\ KeyOf(df[1]) \in Keys(data)
  /\ KeyOf(df[2]) \notin Keys(data)

\* C4: from the second run on, a run of the pipeline leaves both tables as
\* the run before left them, and asks the remote services about no station
\* that had an info row when the run began.
C4_SecondRunChangesNothing ==
  run >= 2 =>
    /\ data = data1
    /\ info = info1
    /\ \A i \in DOMAIN attempts :
         attempts[i].station \notin {x.station_id : x \in info1}

\* C4 witness: the second run has finished its enrichment pass; some station
\* has an info row and some other station was asked about again.
C4_Witness ==
  /\ run = 2
  /\ op = "insert_station_info"
  /\ pc = "idle"
  /\ info # {}
  /\ attempts # <<>>

\* C5: a link whose derived local name was in the folder when fetch_raw_data
\* was called is never requested, and its file is left as it was.
C5_ExistingFileNotRequested ==
  /\ \A i \in DOMAIN requests : FileName(requests[i]) \notin DOMAIN startDisk
  /\ pc = "fetch" => \A n \in DOMAIN startDisk : disk[n] = startDisk[n]

\* The ways resolving a station can fail that C6 names.
ResolveFailures == {"skipped", "geo_raised"}

\* C6: when a pass has ended, every station listed after one whose
\* resolution failed was attempted too.
C6_FailureDoesNotAbortPass ==
  (op = "insert_station_info" /\ pc \in {"idle", "raised"}) =>
    \A i \in DOMAIN attempts :
      attempts[i].result \in ResolveFailures =>
        \A j \in DOMAIN passIds :
          passIds[j] < attempts[i].station =>
            \E k \in DOMAIN attempts : attempts[k].station = passIds[j]

\* C7: when a pass has finished, a station whose lookup succeeded has an info
\* row and is not in the missing-stations query; one whose lookup failed has
\* no info row and is in the query.
C7_EnrichmentCompleteness ==
  (op = "insert_station_info" /\ pc = "idle") =>
    \A i \in DOMAIN attempts :
      LET a == attempts[i]
          missing == Range(MissingStationIds(data, info))
      IN  /\ a.result \in {"inserted", "skipped"}
          /\ a.result = "inserted" => a.station \in InfoStations /\ a.station \notin missing
          /\ a.result = "skipped" => a.station \notin InfoStations /\ a.station \in missing

\* C7 witness: a finished pass in which one lookup succeeded and one failed.
C7_Witness ==
  /\ op = "insert_station_info"
  /\ pc = "idle"
  /\ \E i \in DOMAIN attempts : attempts[i].result = "inserted"
  /\ \E i \in DOMAIN attempts : attempts[i].result = "skipped"

\* C8: the missing-stations query returns exactly the stations that have a
\* data row and no info row, each once, in descending order.
C8_MissingStationsQuery ==
  LET q == MissingStationIds(data, info)
  IN  /\ Range(q) = DataStations \ InfoStations
      /\ Len(q) = Cardinality(DataStations \ InfoStations)
      /\ \A i \in DOMAIN q : \A j \in DOMAIN q : i < j => q[i] > q[j]

\* C8 witness: the pass read two missing stations; data now has stations 1
\* and 2, info has station 1, and the query returns station 2.
C8_Witness ==
  /\ op = "insert_station_info"
  /\ Len(passIds) >= 2
  /\ DataStations = {1, 2}
  /\ InfoStations = {1}
  /\ MissingStationIds(data, info) = <<2>>

\* C9: a csv file on which _insert_single_csv fails is not fatal:
\* insert_raw_data does not raise, and when it has returned every csv file
\* that os.walk found was handed to _insert_single_csv.
C9_FailingCsvIsSkipped ==
  /\ ~(op = "insert_raw_data" /\ pc = "raised")
  /\ op = "insert_station_info" => processed = walked

C11_ConflictSurfaces ==
  [][/\ op' = "_insert_single_station" =>
          \A i \in DOMAIN attempts' :
            (/\ attempts'[i].station \in InfoStations
             /\ attempts'[i].result \notin {"skipped", "geo_raised", "sql_raised"})
              => (pc' = "raised" /\ info' = info)
     /\ \A x \in info : x \in info']_vars

\* C11 witness: the pipeline has run, and a direct call for a station that
\* has an info row has raised the conflict.
C11_Witness ==
  /\ run >= 1
  /\ op = "_insert_single_station"
  /\ pc = "raised"
  /\ attempts # <<>>
  /\ attempts[1].result = "conflict_raised"
  /\ attempts[1].station \in InfoStations

\* The links of the page whose download the site answers with an error.
RefusedUrls ==
  {u \in {UrlJoin(ArchiveUrl, h) : h \in Range(FilterLinks(PageHrefs))} :
     Served(u).status # 200}

\* C12: a download answered with a status other than 200 is reported and
\* leaves the folder as it was, no file for that url; and in a later run the
\* url is requested again.
C12_FailedDownloadLeavesNoFile ==
  [][/\ (/\ pc = "fetch"
          /\ Len(requests') = Len(requests) + 1
          /\ requests'[Len(requests')] \in RefusedUrls)
         => (/\ disk' = disk
             /\ reported' = reported + 1
             /\ FileName(requests'[Len(requests')]) \notin DOMAIN disk')
     /\ (run >= 2 /\ pc = "fetch" /\ links = <<>>)
         => RefusedUrls \subseteq Range(requests)]_vars

\* C12 witness: the second run has gone through the links; the refused url
\* was requested again, reported again, and there is no file of its name.
C12_Witness ==
  /\ run = 2
  /\ pc = "fetch"
  /\ links = <<>>
  /\ RefusedUrls # {}
  /\ \A u \in RefusedUrls : u \in Range(requests) /\ FileName(u) \notin DOMAIN disk
  /\ reported >= 1

\* C13: fetch_station_data returns exactly the stored rows of the station
\* whose date lies between the bounds given, both inclusive; an omitted bound
\* is no limit.
C13_DateRangeInclusive ==
  fetched # NoFetch =>
    fetched.rows =
      {r \in data : /\ r.station = fetched.station_id
                    /\ (fetched.start_date = NULL \/ fetched.start_date <= r.date)
                    /\ (fetched.end_date = NULL \/ r.date <= fetched.end_date)}

\* C14: a call of _insert_single_csv that fails, in read_csv or in the
\* statement, stores no row of its frame and leaves every stored row as it
\* was.
C14_AllOrNothingBatch ==
  [][(\/ pc = "execute" /\ pc' = "raised"
      \/ Idle /\ pc' = "idle" /\ reported' = 1)
       => data' = data]_vars

\* C14 witness: rows are stored, and the statement about to run has a good
\* row of an absent key and then a row whose value breaks the quoting.
C14_Witness ==
  /\ pc = "execute"
  /\ data # {}
  /\ Len(df) = 2
  /\ IsLiteral(Quoted(df[1].temp))
  /\ KeyOf(df[1]) \notin Keys(data)
  /\ ~IsLiteral(Quoted(df[2].temp))

\* The stations handed to _insert_single_station in this pass, in order.
AttemptedIds == [i \in DOMAIN attempts |-> attempts[i].station]

\* In a pass the attempts follow the ids the query held when the pass began:
\* in that order, none twice, none passed over.
PassFollowsSnapshot ==
  op = "insert_station_info" =>
    /\ Len(attempts) <= Len(passIds)
    /\ AttemptedIds = SubSeq(passIds, 1, Len(attempts))
    /\ \A i \in DOMAIN passIds : \A j \in DOMAIN passIds : i < j => passIds[i] > passIds[j]
    /\ pc = "idle" => Len(attempts) = Len(passIds)

\* C15: in a pass of insert_station_info every station id the query held at
\* the start is attempted exactly once, in descending order, whatever rows the
\* pass writes to info on its way.
C15_SnapshotAttemptedOnce ==
  /\ PassFollowsSnapshot
  /\ (op = "insert_station_info" /\ pc \in {"idle", "raised"})
       => AttemptedIds = passIds

\* C16: once a csv file was handed to _insert_single_csv, every archive that
\* was in the folder had been handed to extract_tar, and the archive holding
\* that csv file had been unpacked, in this same call of insert_raw_data.
C16_StageOrdering ==
  processed # {} =>
    /\ {n \in listing : disk[n].kind = "archive"} \subseteq extracted \cup failed
    /\ \A f \in processed : \E a \in extracted : f \in disk[a].members

\* C16 witness: in the second run, with the csv files of the first run in the
\* folder from the start, archives were unpacked, one failed, and csv files
\* were then inserted.
C16_Witness ==
  /\ run = 2
  /\ op = "insert_raw_data"
  /\ \E n \in listing : disk[n].kind # "archive"
  /\ extracted # {}
  /\ failed # {}
  /\ Cardinality(processed) >= 2

\* C17: no step of insert_raw_data (with _insert_single_csv) touches table
\* info, no step of insert_station_info (with _insert_single_station) touches
\* table data, and an attempt whose lookup fails leaves both tables as they
\* were.
C17_FrameConditions ==
  [][/\ op = "insert_raw_data" => info' = info
     /\ op = "insert_station_info" => data' = data
     /\ (/\ op' = "insert_station_info"
         /\ Len(attempts') = Len(attempts) + 1
         /\ attempts'[Len(attempts')].result \in ResolveFailures)
        => (data' = data /\ info' = info)]_vars

\* C17 witness: both tables hold rows, a station of the pass was inserted,
\* and the lookup of the station attempted last has failed.
C17_Witness ==
  /\ op = "insert_station_info"
  /\ pc = "enrich"
  /\ data # {}
  /\ info # {}
  /\ Len(attempts) >= 2
  /\ attempts[Len(attempts)].result = "skipped"

\* C18: every info row is of a station that has a data row; a station with
\* data rows need not have an info row.
C18_InfoStationsHaveData == InfoStations \subseteq DataStations

\* C18 witness: a pass has written an info row, and another station with
\* data rows has none.
C18_Witness ==
  /\ op = "insert_station_info"
  /\ InfoStations # {}
  /\ DataStations \ InfoStations # {}
  /\ \E i \in DOMAIN attempts : attempts[i].result = "inserted"

====
